---- MODULE Spec2Model ----
(***************************************************************************)
(* State-machine model of the five HCA pipeline scripts                    *)
(* (hca_all_analysis, hca_HO, hca_jaccard, hca_overlap, hca_Euclidian).    *)
(* Each script is a straight-line module body; the external collaborators  *)
(* (load_ftmap, pm.align, pm.get_object_list, plot_*_hca, plt.savefig)     *)
(* are modelled by their effect on the state and by a nondeterministic     *)
(* outcome (return or raise).                                              *)
(***************************************************************************)
EXTENDS Integers, Sequences, FiniteSets, TLC

\* ------------------------------------------------------------------ bounds
MaxFiles == 3
MaxHot == 1
Cutoffs == {10, 20, 30}

\* ------------------------------------------------------- text and formatting
\* A text is a sequence of pieces: a literal, or a number formatted by an
\* f-string replacement field (its decimal digits).
RECURSIVE Digits(_)
Digits(n) == IF n < 10 THEN <<n>> ELSE Digits(n \div 10) \o <<n % 10>>

Lit(s) == [text |-> s, digits |-> <<>>]
Str(n) == [text |-> "", digits |-> Digits(n)]

Contains(msg, piece) == \E k \in 1..Len(msg) : msg[k] = piece

\* ------------------------------------------------------------ configuration
Variants == {"hca_all_analysis", "hca_HO", "hca_jaccard", "hca_overlap", "hca_Euclidian"}

DefaultCutoff == 20
TitleCutoff == 20
OUTPUT_PREFIX == Lit("[FILENAME]")

\* S0_CUTOFF is a placeholder the user fills in for hca_all_analysis and
\* hca_HO; the other three scripts set it to 20.
CutoffsOf(v) == IF v \in {"hca_all_analysis", "hca_HO"} THEN Cutoffs ELSE {DefaultCutoff}

HOTSPOT_SEL(c) == <<Lit("((*.B* *.D*) AND p.S0>"), Str(c), Lit(")")>>
EUCLIDEAN_SEL(c) == <<Lit("*.K15_* AND p.S0>"), Str(c)>>

\* Which variants run an alignment stage, and which validate the selection.
HasAlignStage(v) == v # "hca_Euclidian"
\* "if ALIGN_STRUCTURES:" exists in hca_all_analysis only.
AlignStageEnabled(v, flag) == HasAlignStage(v) /\ (v = "hca_all_analysis" => flag)
HasSelectStage(v) == v # "hca_Euclidian"

NoInputMsg(v) ==
  IF v \in {"hca_jaccard", "hca_Euclidian"}
    THEN <<Lit("No FTMap PDB files found.")>>
    ELSE <<Lit("No FTMap PDB files found. Check BASE_PATH.")>>

NotEnoughProteinsMsg == <<Lit("Not enough protein structures for alignment.")>>

InsufficientHotspotsMsg(v, k, c) ==
  CASE v = "hca_all_analysis" ->
         <<Lit("Only "), Str(k), Lit(" hotspots found with S0 > "), Str(c),
           Lit(". "), Lit("At least two are required for HCA.")>>
    [] v = "hca_HO" ->
         <<Lit("Only "), Str(k), Lit(" hotspots found with S0 > "), Str(c),
           Lit(". "), Lit("At least two are required for HO analysis.")>>
    [] v = "hca_overlap" ->
         <<Lit("Only "), Str(k), Lit(" hotspots found with S0 > "), Str(c),
           Lit(". "), Lit("At least two are required for overlap analysis.")>>
    [] OTHER -> <<Lit("Not enough hotspots for Jaccard analysis")>>

\* ---------------------------------------------------------------- job tables
Title(name) == <<Lit(name), Lit(" | S0 > "), Str(TitleCutoff)>>

JobHO(c, out) ==
  [function |-> "ho", sel |-> HOTSPOT_SEL(c), align |-> FALSE,
   title |-> Title("Hotspot Overlap (HO)"), output |-> out]
JobJaccard(c, out) ==
  [function |-> "jaccard", sel |-> HOTSPOT_SEL(c), align |-> TRUE,
   title |-> Title("Residue Jaccard Similarity"), output |-> out]
JobOverlap(c, out) ==
  [function |-> "overlap", sel |-> HOTSPOT_SEL(c), align |-> TRUE,
   title |-> Title("Residue Overlap Similarity"), output |-> out]
JobEuclidean(c, out) ==
  [function |-> "euclidean", sel |-> EUCLIDEAN_SEL(c), align |-> FALSE,
   title |-> Title("Euclidean HCA (S0 + CD + MD)"), output |-> out]

Jobs(v, c) ==
  CASE v = "hca_all_analysis" ->
         << JobHO(c, <<OUTPUT_PREFIX, Lit("_01_HO_dendrogram.png")>>),
            JobJaccard(c, <<OUTPUT_PREFIX, Lit("_02_Jaccard_dendrogram.png")>>),
            JobOverlap(c, <<OUTPUT_PREFIX, Lit("_03_Overlap_dendrogram.png")>>),
            JobEuclidean(c, <<OUTPUT_PREFIX, Lit("_04_Euclidean_HCA.png")>>) >>
    [] v = "hca_HO" -> << JobHO(c, <<Lit("[FILENAME]_HO.png")>>) >>
    [] v = "hca_jaccard" -> << JobJaccard(c, <<Lit("3B24_B_S0_20_Jaccard.png")>>) >>
    [] v = "hca_overlap" -> << JobOverlap(c, <<Lit("S0_20_Overlap.png")>>) >>
    [] OTHER -> << JobEuclidean(c, <<Lit("3B24_B_S0_20_Euclidean.png")>>) >>

NJobs(v) == Len(Jobs(v, DefaultCutoff))

\* The list of generated files printed at the end of the run.
ReportNames_Swapped(v) ==
  IF v = "hca_all_analysis"
    THEN << <<OUTPUT_PREFIX, Lit("_01_HO_dendrogram.png")>>,
            <<OUTPUT_PREFIX, Lit("_03_Overlap_dendrogram.png")>>,
            <<OUTPUT_PREFIX, Lit("_02_Jaccard_dendrogram.png")>>,
            <<OUTPUT_PREFIX, Lit("_04_Euclidean_HCA.png")>> >>
    ELSE << Jobs(v, DefaultCutoff)[1].output >>

ReportNames(v) ==
  IF v = "hca_all_analysis"
    THEN << <<OUTPUT_PREFIX, Lit("_01_HO_dendrogram.png")>>,
            <<OUTPUT_PREFIX, Lit("_02_Jaccard_dendrogram.png")>>,
            <<OUTPUT_PREFIX, Lit("_03_Overlap_dendrogram.png")>>,
            <<OUTPUT_PREFIX, Lit("_04_Euclidean_HCA.png")>> >>
    ELSE << Jobs(v, DefaultCutoff)[1].output >>

\* -------------------------------------------------------------------- state
VARIABLES
  variant,           \* which script runs
  S0_CUTOFF,         \* user parameter
  ALIGN_STRUCTURES,  \* user parameter (hca_all_analysis only)
  pc,                \* position in the module body
  files,             \* result of glob()
  i,                 \* loop index of the running for-loop
  repo,              \* PyMOL's object list (the working repository)
  loadCalls,         \* files handed to load_ftmap, in call order
  progress,          \* calls of progress_bar: [label, current, total]
  alignRan,          \* the alignment stage was entered
  objs,              \* listing used by the alignment stage (objs / proteins)
  ref,               \* alignment reference (0: not chosen)
  alignLog,          \* calls of pm.align: [obj, ref, ok]
  warnings,          \* objects for which an alignment warning was printed
  hotspots,          \* len(hotspots) once resolved, -1 before
  resolved,          \* selection expressions resolved by pm.get_object_list(sel)
  job,               \* index of the running analysis job
  calls,             \* clustering collaborator calls: [function, sel, align]
  plotOpen,          \* number of pyplot figures currently open
  titles,            \* plt.title texts, in call order
  saved,             \* files written by plt.savefig, in call order
  report,            \* paths listed by the final report
  err,               \* the exception that terminated the run
  pb                 \* last progress line written by progress_bar

vars == <<variant, S0_CUTOFF, ALIGN_STRUCTURES, pc, files, i, repo, loadCalls,
          progress, alignRan, objs, ref, alignLog, warnings, hotspots,
          resolved, job, calls, plotOpen, titles, saved, report, err, pb>>

NoErr == [type |-> "none", origin |-> "none", msg |-> <<>>]
RuntimeError(m) == [type |-> "RuntimeError", origin |-> "script", msg |-> m]
CollaboratorError(o) == [type |-> "Exception", origin |-> o, msg |-> <<>>]
IndexError == [type |-> "IndexError", origin |-> "script", msg |-> <<>>]

\* An uncaught exception terminates the interpreter.
RaiseAndGoOn(e) ==
  /\ err' = e
  /\ pc' = pc

Raise(e) ==
  /\ err' = e
  /\ pc' = "failed"

\* pm.get_object_list(selection): number of hotspots the selection names.
RECURSIVE SumBD(_)
SumBD(s) == IF s = <<>> THEN 0 ELSE Head(s).bd + SumBD(Tail(s))
RECURSIVE SumK15(_)
SumK15(s) == IF s = <<>> THEN 0 ELSE Head(s).k15 + SumK15(Tail(s))

Resolve(sel, r) ==
  IF sel[1] = Lit("((*.B* *.D*) AND p.S0>") THEN SumBD(r) ELSE SumK15(r)

\* [obj for obj in pm.get_object_list() if pm.count_atoms(...) > 0]
Proteins(r) == SelectSeq(r, LAMBDA o : o.protein)
Ids(r) == [k \in 1..Len(r) |-> r[k].id]

progress_bar(current, total, label) ==
  [label |-> label, current |-> current, total |-> total]

LoadLabel(v) ==
  CASE v = "hca_all_analysis" -> "Loading FTMap files"
    [] v = "hca_HO" -> "Loading FTMap"
    [] OTHER -> "Loading"

\* ------------------------------------------------------------- progress bar
MaxTotal == 31
MaxElapsed == 2
bar_len == 30

Repeat(c, n) == [k \in 1..n |-> c]

\* str.ljust(width, fillchar)
Ljust(s, width, c) == IF Len(s) >= width THEN s ELSE s \o Repeat(c, width - Len(s))

\* avg = elapsed / current if current > 0 else 0, as an exact fraction
Avg(elapsed, current) ==
  IF current > 0 THEN [num |-> elapsed, den |-> current] ELSE [num |-> 0, den |-> 1]

Eta_Reversed(elapsed, current, total) ==
  [num |-> Avg(elapsed, current).num * (current - total), den |-> Avg(elapsed, current).den]

\* eta = avg * (total - current)
Eta(elapsed, current, total) ==
  [num |-> Avg(elapsed, current).num * (total - current), den |-> Avg(elapsed, current).den]

Filled_Rounded(current, total) == (2 * bar_len * current + total) \div (2 * total)

\* filled = int(bar_len * current / total)
Filled(current, total) == (bar_len * current) \div total

\* hca_all_analysis: bar = "=" * filled + "-" * (bar_len - filled)
BarPadded(current, total) ==
  Repeat("=", Filled(current, total)) \o Repeat("-", bar_len - Filled(current, total))

\* single-job scripts: bar = ("=" * int(30 * i / total)).ljust(30, "-")
BarLjust(current, total) == Ljust(Repeat("=", (30 * current) \div total), 30, "-")

Bar(v, current, total) ==
  IF v = "hca_all_analysis" THEN BarPadded(current, total) ELSE BarLjust(current, total)

NoLine == [total |-> 0, current |-> 0, elapsed |-> 0, eta |-> [num |-> 0, den |-> 1], bar |-> <<>>]

Init ==
  /\ variant \in Variants
  /\ S0_CUTOFF \in CutoffsOf(variant)
  /\ ALIGN_STRUCTURES \in (IF variant = "hca_all_analysis" THEN BOOLEAN ELSE {TRUE})
  /\ pc = "init"
  /\ files = <<>>
  /\ i = 0
  /\ repo = <<>>
  /\ loadCalls = <<>>
  /\ progress = <<>>
  /\ alignRan = FALSE
  /\ objs = <<>>
  /\ ref = 0
  /\ alignLog = <<>>
  /\ warnings = <<>>
  /\ hotspots = -1
  /\ resolved = {}
  /\ job = 0
  /\ calls = <<>>
  /\ plotOpen = 0
  /\ titles = <<>>
  /\ saved = <<>>
  /\ report = <<>>
  /\ err = NoErr
  /\ pb = NoLine

config == <<variant, S0_CUTOFF, ALIGN_STRUCTURES>>

\* pm.undo_disable(); print banner
Start ==
  /\ pc = "init"
  /\ pc' = "glob"
  /\ UNCHANGED <<config, pb, files, i, repo, loadCalls, progress, alignRan, objs,
                 ref, alignLog, warnings, hotspots, resolved, job, calls,
                 plotOpen, titles, saved, report, err>>

NoFiles_Never(n) == FALSE

NoFiles(n) == n = 0

\* files = glob(...); if not files: raise RuntimeError
Glob ==
  /\ pc = "glob"
  /\ \E n \in 0..MaxFiles :
       /\ files' = [k \in 1..n |-> k]
       /\ IF NoFiles(n)
            THEN /\ Raise(RuntimeError(NoInputMsg(variant)))
                 /\ i' = i
            ELSE /\ pc' = "load"
                 /\ i' = 1
                 /\ err' = err
  /\ UNCHANGED <<config, pb, repo, loadCalls, progress, alignRan, objs, ref,
                 alignLog, warnings, hotspots, resolved, job, calls, plotOpen,
                 titles, saved, report>>

LoadFile_Catching ==
  /\ pc = "load"
  /\ i <= Len(files)
  /\ loadCalls' = Append(loadCalls, files[i])
  /\ \/ \E p \in BOOLEAN, b \in 0..MaxHot, k \in 0..MaxHot :
          repo' = Append(repo, [id |-> files[i], protein |-> p, bd |-> b, k15 |-> k])
     \/ repo' = repo
  /\ progress' = Append(progress, progress_bar(i, Len(files), LoadLabel(variant)))
  /\ i' = i + 1
  /\ UNCHANGED <<config, pb, pc, err, files, alignRan, objs, ref, alignLog, warnings,
                 hotspots, resolved, job, calls, plotOpen, titles, saved, report>>

\* one iteration of: for i, f in enumerate(files, 1): load_ftmap(f); progress_bar(...)
LoadFile ==
  /\ pc = "load"
  /\ i <= Len(files)
  /\ loadCalls' = Append(loadCalls, files[i])
  /\ \/ /\ \E p \in BOOLEAN, b \in 0..MaxHot, k \in 0..MaxHot :
             repo' = Append(repo, [id |-> files[i], protein |-> p, bd |-> b, k15 |-> k])
        /\ progress' = Append(progress, progress_bar(i, Len(files), LoadLabel(variant)))
        /\ i' = i + 1
        /\ UNCHANGED <<pc, err>>
     \/ /\ Raise(CollaboratorError("load_ftmap"))
        /\ UNCHANGED <<repo, progress, i>>
  /\ UNCHANGED <<config, pb, files, alignRan, objs, ref, alignLog, warnings,
                 hotspots, resolved, job, calls, plotOpen, titles, saved, report>>

\* the load loop is exhausted: print the checkmark and enter the next stage
LoadDone ==
  /\ pc = "load"
  /\ i > Len(files)
  /\ IF AlignStageEnabled(variant, ALIGN_STRUCTURES)
       THEN pc' = "align_start" /\ job' = job
       ELSE IF HasSelectStage(variant)
         THEN pc' = "select" /\ job' = job
         ELSE pc' = "cluster" /\ job' = 1
  /\ UNCHANGED <<config, pb, files, i, repo, loadCalls, progress, alignRan, objs,
                 ref, alignLog, warnings, hotspots, resolved, calls, plotOpen,
                 titles, saved, report, err>>

AlignLabel(v) == IF v = "hca_all_analysis" THEN "Aligning" ELSE "Aligning proteins"

AlignTotal_Len(o) == Len(o)

\* total handed to progress_bar by the alignment loop: len(objs) - 1
AlignTotal(o) == Len(o) - 1

\* Variants whose alignment loop wraps pm.align in try/except.
CatchesAlignFailure(v) == v \in {"hca_all_analysis", "hca_HO"}
ReportsAlignProgress(v) == v \in {"hca_all_analysis", "hca_HO"}

Eligible_Unfiltered(v, r) == Ids(r)

\* Listing the alignment stage iterates over.
Eligible(v, r) == IF v = "hca_HO" THEN Ids(Proteins(r)) ELSE Ids(r)

\* Entry of the alignment stage: build the listing, guard, pick the reference.
AlignStart ==
  /\ pc = "align_start"
  /\ alignRan' = TRUE
  /\ objs' = Eligible(variant, repo)
  /\ IF variant = "hca_HO" /\ Len(objs') < 2
       THEN /\ Raise(RuntimeError(NotEnoughProteinsMsg))
            /\ UNCHANGED <<ref, i>>
       ELSE IF Len(objs') = 0
         THEN /\ Raise(IndexError)
              /\ UNCHANGED <<ref, i>>
         ELSE /\ ref' = objs'[1]
              /\ i' = 1
              /\ pc' = "align"
              /\ err' = err
  /\ UNCHANGED <<config, pb, files, repo, loadCalls, progress, alignLog, warnings,
                 hotspots, resolved, job, calls, plotOpen, titles, saved, report>>

\* one iteration of: for i, obj in enumerate(objs[1:], 1): pm.align(obj, ref) ...
AlignOne ==
  /\ pc = "align"
  /\ i <= Len(objs) - 1
  /\ \E ok \in BOOLEAN :
       /\ alignLog' = Append(alignLog, [obj |-> objs[i + 1], ref |-> ref, ok |-> ok])
       /\ IF ok \/ CatchesAlignFailure(variant)
            THEN /\ warnings' = IF ~ok /\ variant = "hca_HO"
                                  THEN Append(warnings, objs[i + 1])
                                  ELSE warnings
                 /\ progress' = IF ReportsAlignProgress(variant)
                                  THEN Append(progress,
                                         progress_bar(i, AlignTotal(objs), AlignLabel(variant)))
                                  ELSE progress
                 /\ i' = i + 1
                 /\ UNCHANGED <<pc, err>>
            ELSE /\ Raise(CollaboratorError("pm.align"))
                 /\ UNCHANGED <<warnings, progress, i>>
  /\ UNCHANGED <<config, pb, files, repo, loadCalls, alignRan, objs, ref, hotspots,
                 resolved, job, calls, plotOpen, titles, saved, report>>

\* the alignment loop is exhausted
AlignDone ==
  /\ pc = "align"
  /\ i > Len(objs) - 1
  /\ pc' = "select"
  /\ UNCHANGED <<config, pb, files, i, repo, loadCalls, progress, alignRan, objs,
                 ref, alignLog, warnings, hotspots, resolved, job, calls,
                 plotOpen, titles, saved, report, err>>

\* hotspots = pm.get_object_list(HOTSPOT_SEL); if len(hotspots) < 2: raise
Select ==
  /\ pc = "select"
  /\ hotspots' = Resolve(HOTSPOT_SEL(S0_CUTOFF), repo)
  /\ resolved' = resolved \cup {HOTSPOT_SEL(S0_CUTOFF)}
  /\ IF hotspots' < 2
       THEN /\ Raise(RuntimeError(InsufficientHotspotsMsg(variant, hotspots', S0_CUTOFF)))
            /\ job' = job
       ELSE /\ pc' = "cluster"
            /\ job' = 1
            /\ err' = err
  /\ UNCHANGED <<config, pb, files, i, repo, loadCalls, progress, alignRan, objs,
                 ref, alignLog, warnings, calls, plotOpen, titles, saved, report>>

CurrentJob == Jobs(variant, S0_CUTOFF)[job]

Collaborator(j) ==
  IF j.function = "euclidean" THEN "plot_euclidean_hca" ELSE "plot_pairwise_hca"

\* plot_pairwise_hca(...) / plot_euclidean_hca(...): draws on a pyplot figure.
\* When it raises, the figure may or may not have been created already.
Cluster ==
  /\ pc = "cluster"
  /\ calls' = Append(calls, [function |-> CurrentJob.function,
                             sel |-> CurrentJob.sel, align |-> CurrentJob.align])
  /\ \/ /\ plotOpen' = plotOpen + 1
        /\ pc' = "title"
        /\ err' = err
     \/ /\ plotOpen' \in {plotOpen, plotOpen + 1}
        /\ Raise(CollaboratorError(Collaborator(CurrentJob)))
  /\ UNCHANGED <<config, pb, files, i, repo, loadCalls, progress, alignRan, objs,
                 ref, alignLog, warnings, hotspots, resolved, job, titles,
                 saved, report>>

\* plt.title("... | S0 > 20")
SetTitle ==
  /\ pc = "title"
  /\ titles' = Append(titles, CurrentJob.title)
  /\ pc' = "savefig"
  /\ UNCHANGED <<config, pb, files, i, repo, loadCalls, progress, alignRan, objs,
                 ref, alignLog, warnings, hotspots, resolved, job, calls,
                 plotOpen, saved, report, err>>

\* plt.savefig(path, dpi=300, bbox_inches="tight")
Savefig ==
  /\ pc = "savefig"
  /\ \/ /\ saved' = Append(saved, CurrentJob.output)
        /\ pc' = "close"
        /\ err' = err
     \/ /\ Raise(CollaboratorError("plt.savefig"))
        /\ saved' = saved
  /\ UNCHANGED <<config, pb, files, i, repo, loadCalls, progress, alignRan, objs,
                 ref, alignLog, warnings, hotspots, resolved, job, calls,
                 plotOpen, titles, report>>

JobsRemain_SkipLast(v, j) == j < NJobs(v) - 1

JobsRemain(v, j) == j < NJobs(v)

\* plt.close(); print the job's completion line; go on to the next job
Close ==
  /\ pc = "close"
  /\ plotOpen' = IF plotOpen > 0 THEN plotOpen - 1 ELSE 0
  /\ IF JobsRemain(variant, job)
       THEN pc' = "cluster" /\ job' = job + 1
       ELSE pc' = "report" /\ job' = job
  /\ UNCHANGED <<config, pb, files, i, repo, loadCalls, progress, alignRan, objs,
                 ref, alignLog, warnings, hotspots, resolved, calls, titles,
                 saved, report, err>>

\* final report: the list of generated files
Report ==
  /\ pc = "report"
  /\ report' = ReportNames(variant)
  /\ pc' = "done"
  /\ UNCHANGED <<config, pb, files, i, repo, loadCalls, progress, alignRan, objs,
                 ref, alignLog, warnings, hotspots, resolved, job, calls,
                 plotOpen, titles, saved, err>>

Next ==
  \/ Start
  \/ Glob
  \/ LoadFile
  \/ LoadDone
  \/ AlignStart
  \/ AlignOne
  \/ AlignDone
  \/ Select
  \/ Cluster
  \/ SetTitle
  \/ Savefig
  \/ Close
  \/ Report

Spec == Init /\ [][Next]_vars

\* The driver state (section 4.6) the position belongs to.
Stage(p) ==
  CASE p = "init" -> "Init"
    [] p \in {"glob", "load"} -> "Loading"
    [] p \in {"align_start", "align"} -> "Aligning"
    [] p = "select" -> "Selecting"
    [] p \in {"cluster", "title", "savefig", "close"} -> "Analyzing"
    [] p = "report" -> "Reporting"
    [] p = "done" -> "Done"
    [] OTHER -> "Failed"


StageOrder(v) ==
  {<<"Init", "Loading">>, <<"Loading", "Aligning">>, <<"Aligning", "Selecting">>,
   <<"Selecting", "Analyzing">>, <<"Analyzing", "Reporting">>, <<"Reporting", "Done">>}
  \cup (IF HasSelectStage(v) THEN {<<"Loading", "Selecting">>}
                             ELSE {<<"Loading", "Analyzing">>})

IsPrefix(s, t) == Len(s) <= Len(t) /\ \A k \in 1..Len(s) : s[k] = t[k]
Functions(cs) == [k \in 1..Len(cs) |-> cs[k].function]
DeclaredFunctions(v) == [k \in 1..NJobs(v) |-> Jobs(v, DefaultCutoff)[k].function]

\* ------------------------------------------------------------------- claims

\* C1: no clustering collaborator call is issued unless the selection handed
\* to that call has been resolved and found to contain at least 2 hotspots.
C1_ValidatedBeforeClustering ==
  \A k \in 1..Len(calls) :
    /\ calls[k].sel \in resolved
    /\ Resolve(calls[k].sel, repo) >= 2

\* C2: when the glob pattern matches zero files the run fails with the
\* no-input error and nothing beyond Loading happens: no load_ftmap, no align,
\* no selection evaluation, no clustering call, no savefig.
C2_NoInputStopsAtLoading ==
  (pc \notin {"init", "glob"} /\ files = <<>>) =>
    /\ pc = "failed"
    /\ err = RuntimeError(NoInputMsg(variant))
    /\ loadCalls = <<>>
    /\ ~alignRan /\ alignLog = <<>>
    /\ resolved = {} /\ hotspots = -1
    /\ calls = <<>> /\ titles = <<>> /\ saved = <<>> /\ report = <<>>

C2_Witness == pc = "failed" /\ files = <<>> /\ err.type = "RuntimeError"

\* C3: in every variant that aligns, a failed pm.align call for one structure
\* is non-fatal: it never terminates the run, and every remaining structure
\* is still passed to pm.align before selection starts.
C3_AlignFailureNonFatal ==
  /\ err.origin # "pm.align"
  /\ (alignRan /\ Stage(pc) \in {"Selecting", "Analyzing", "Reporting", "Done"})
       => Len(alignLog) = Len(objs) - 1

\* C4: whenever the validated selection has k < 2 hotspots the run aborts and
\* the error message contains both k and the configured cutoff verbatim.
C4_InsufficientHotspotsMessage ==
  (hotspots \in {0, 1}) =>
    /\ pc = "failed"
    /\ err.type = "RuntimeError"
    /\ Contains(err.msg, Str(hotspots))
    /\ Contains(err.msg, Str(S0_CUTOFF))

\* C5: whenever the alignment stage runs with fewer than 2 eligible
\* structures it fails with the insufficient-input error before any
\* alignment call; it never goes on with fewer than 2 structures.
C5_AlignGuard ==
  (alignRan /\ Len(objs) < 2) =>
    /\ pc = "failed"
    /\ err.type = "RuntimeError"
    /\ alignLog = <<>>

C7_SiblingJobsAttempted ==
  (variant = "hca_all_analysis" /\ pc \in {"done", "failed"} /\ calls # <<>>) =>
    Functions(calls) = DeclaredFunctions(variant)

\* C8: whenever a job has ended (completed or raised) its plot is closed: no
\* plot is open when the next job starts or when the run has terminated.
C8_PlotClosed ==
  (pc \in {"cluster", "report", "done", "failed"}) => plotOpen = 0

\* C9: the cutoff shown in every plot title equals S0_CUTOFF.
C9_TitleCutoff ==
  \A k \in 1..Len(titles) : Contains(titles[k], Str(S0_CUTOFF))

\* C10: in hca_all_analysis the final report is produced only after each of
\* the 4 jobs wrote its artifact, and lists exactly those 4 paths, once each,
\* in declaration order (HO, Jaccard, Overlap, Euclidean); every listed path
\* was persisted in this run.
C10_ReportListsArtifacts ==
  (variant = "hca_all_analysis") =>
    /\ (pc = "report") => Len(saved) = 4
    /\ (report # <<>>) =>
         /\ pc = "done"
         /\ report = saved
         /\ Len(report) = 4
         /\ \A a, b \in 1..Len(report) : report[a] = report[b] => a = b
         /\ Functions(calls) = <<"ho", "jaccard", "overlap", "euclidean">>
         /\ \A k \in 1..4 : report[k] = Jobs(variant, S0_CUTOFF)[k].output

C10_Witness == variant = "hca_all_analysis" /\ pc = "done" /\ Len(report) = 4

Failed(log) == SelectSeq(log, LAMBDA a : ~a.ok)

\* C11: every recovered alignment failure is logged and counted: once the
\* alignment stage is over, the number of recorded (warned) failures equals
\* the number of pm.align calls that failed.
C11_AlignFailuresRecorded ==
  (alignRan /\ Stage(pc) \in {"Selecting", "Analyzing", "Reporting", "Done"}) =>
    Len(warnings) = Len(Failed(alignLog))

\* ------------------------------------------- progress bar as a pure function
\* A loop of `total` items calls progress_bar(current, total, start, label)
\* for current = 1..total while the clock advances.
InitBar ==
  /\ variant \in Variants
  /\ S0_CUTOFF = DefaultCutoff
  /\ ALIGN_STRUCTURES = TRUE
  /\ pc = "init"
  /\ files = <<>> /\ i = 0 /\ repo = <<>> /\ loadCalls = <<>> /\ progress = <<>>
  /\ alignRan = FALSE /\ objs = <<>> /\ ref = 0 /\ alignLog = <<>> /\ warnings = <<>>
  /\ hotspots = -1 /\ resolved = {} /\ job = 0 /\ calls = <<>> /\ plotOpen = 0
  /\ titles = <<>> /\ saved = <<>> /\ report = <<>> /\ err = NoErr
  /\ \E t \in 1..MaxTotal : pb = [NoLine EXCEPT !.total = t]

ProgressCall ==
  /\ pb.current < pb.total
  /\ \E dt \in 0..1 :
       /\ pb.elapsed + dt <= MaxElapsed
       /\ pb' = [total |-> pb.total,
                 current |-> pb.current + 1,
                 elapsed |-> pb.elapsed + dt,
                 eta |-> Eta(pb.elapsed + dt, pb.current + 1, pb.total),
                 bar |-> Bar(variant, pb.current + 1, pb.total)]
  /\ UNCHANGED <<config, pc, files, i, repo, loadCalls, progress, alignRan, objs,
                 ref, alignLog, warnings, hotspots, resolved, job, calls,
                 plotOpen, titles, saved, report, err>>

NextBar == ProgressCall

SpecBar == InitBar /\ [][NextBar]_vars

\* C12: for total >= 1, 1 <= current <= total and elapsed >= 0 the ETA
\* (elapsed / current) * (total - current) is >= 0, and is 0 when
\* current = total.
C12_EtaNonNegative ==
  (pb.current >= 1) =>
    /\ pb.eta.den > 0
    /\ pb.eta.num >= 0
    /\ (pb.current = pb.total) => pb.eta.num = 0

C12_Witness == pb.total > 1 /\ pb.current = pb.total /\ pb.elapsed > 0 /\ pb.eta.num = 0

FilledOf(b) == Len(SelectSeq(b, LAMBDA c : c = "="))

\* C18: for total >= 1 and 1 <= current <= total the rendered bar has exactly
\* 30 slots, the first floor(30 * current / total) filled and the rest
\* padding; the filled count is within 0..30, never decreases as current
\* grows, and is 30 exactly when current = total; the ljust-padded and the
\* explicitly padded implementation render the same bar.
C18_BarRendering ==
  /\ [](pb.current >= 1 =>
          /\ Len(pb.bar) = 30
          /\ \A k \in 1..Len(pb.bar) :
               pb.bar[k] = IF k <= FilledOf(pb.bar) THEN "=" ELSE "-"
          /\ FilledOf(pb.bar) * pb.total <= 30 * pb.current
          /\ 30 * pb.current < (FilledOf(pb.bar) + 1) * pb.total
          /\ FilledOf(pb.bar) \in 0..30
          /\ (FilledOf(pb.bar) = 30) <=> (pb.current = pb.total)
          /\ pb.bar = BarPadded(pb.current, pb.total)
          /\ pb.bar = BarLjust(pb.current, pb.total))
  /\ [][FilledOf(pb'.bar) >= FilledOf(pb.bar)]_vars

C18_Witness ==
  /\ variant = "hca_HO"
  /\ pb.total = 7 /\ pb.current = 2
  /\ FilledOf(pb.bar) = 8

\* The output paths a script is configured with, in declaration order.
ConfiguredOutputs(v) == [k \in 1..NJobs(v) |-> Jobs(v, DefaultCutoff)[k].output]

\* C13: two runs of the same variant that reach Done execute the same number
\* of jobs and write the same file names in the same order: at Done the jobs
\* called and the files written are a function of the variant alone, whatever
\* the files loaded, the alignment outcomes and the selection contents were.
C13_SameArtifacts ==
  (pc = "done") =>
    /\ Len(calls) = NJobs(variant)
    /\ Functions(calls) = DeclaredFunctions(variant)
    /\ saved = ConfiguredOutputs(variant)

C13_Witness ==
  /\ pc = "done"
  /\ variant = "hca_HO"
  /\ Failed(alignLog) # <<>>
  /\ Len(repo) = 3

\* C14: a failing load_ftmap call is not caught: it terminates the run, so no
\* later file is loaded and no alignment, selection, clustering or save
\* happens; the files before it were each loaded once, in glob order, with
\* one progress report after each.
C14_LoadFailureAborts ==
  (Len(loadCalls) > Len(repo)) =>
    /\ pc = "failed"
    /\ err = CollaboratorError("load_ftmap")
    /\ Len(loadCalls) = Len(repo) + 1
    /\ loadCalls = SubSeq(files, 1, Len(loadCalls))
    /\ Ids(repo) = SubSeq(files, 1, Len(repo))
    /\ progress = [k \in 1..Len(repo) |->
                     [label |-> LoadLabel(variant), current |-> k, total |-> Len(files)]]
    /\ ~alignRan /\ alignLog = <<>>
    /\ resolved = {} /\ hotspots = -1
    /\ calls = <<>> /\ titles = <<>> /\ saved = <<>> /\ report = <<>>

C14_Witness ==
  /\ err.origin = "load_ftmap"
  /\ Len(files) = 3
  /\ Len(loadCalls) = 2 /\ Len(repo) = 1

\* A structure the alignment stage of the running variant may use.
EligibleObj(o) == (variant = "hca_HO") => o.protein
\* The eligible structures other than the reference, in listing order.
Moving == Ids(SelectSeq(repo, LAMBDA o : EligibleObj(o) /\ o.id # ref))
ExpectedAlignCalls == [k \in 1..Len(Moving) |-> [obj |-> Moving[k], ref |-> ref]]
AlignCalls == [k \in 1..Len(alignLog) |-> [obj |-> alignLog[k].obj, ref |-> alignLog[k].ref]]

\* C15: the reference is fixed before the loop as the first structure of the
\* listing (in hca_HO the first protein-bearing one) and never changes; it is
\* never passed as the moving structure; the other eligible structures are
\* passed to pm.align once each, against that reference, in listing order
\* (all of them once the loop has run to its end); hca_HO never passes a
\* structure without protein atoms.
C15_FixedReference ==
  /\ [](/\ (ref = 0) => alignLog = <<>>
        /\ (ref # 0) =>
             /\ \E k \in 1..Len(repo) :
                  /\ repo[k].id = ref
                  /\ EligibleObj(repo[k])
                  /\ \A j \in 1..(k - 1) : ~EligibleObj(repo[j])
             /\ \A k \in 1..Len(alignLog) : alignLog[k].obj # ref
             /\ \A k \in 1..Len(alignLog) : \A j \in 1..Len(repo) :
                  (repo[j].id = alignLog[k].obj) => EligibleObj(repo[j])
             /\ IsPrefix(AlignCalls, ExpectedAlignCalls)
             /\ (Stage(pc) \in {"Selecting", "Analyzing", "Reporting", "Done"})
                  => AlignCalls = ExpectedAlignCalls)
  /\ [][(ref # 0) => (ref' = ref)]_vars

C15_Witness ==
  /\ variant = "hca_HO"
  /\ pc = "select"
  /\ Len(repo) = 3 /\ ~repo[1].protein
  /\ ref = 2
  /\ Len(alignLog) = 1

LoadProgress == SelectSeq(progress, LAMBDA c : c.label = LoadLabel(variant))
AlignProgress == SelectSeq(progress, LAMBDA c : c.label = AlignLabel(variant))

\* C16: every progress_bar call of the loading loop and of the alignment loop
\* has total >= 1 and 1 <= current <= total (never total = 0), and the last
\* call of a loop that ran to its end has current = total.
C16_ProgressContract ==
  /\ \A k \in 1..Len(progress) :
       /\ progress[k].total >= 1
       /\ progress[k].current >= 1
       /\ progress[k].current <= progress[k].total
  /\ (Stage(pc) \in {"Aligning", "Selecting", "Analyzing", "Reporting", "Done"}) =>
       /\ Len(LoadProgress) = Len(files)
       /\ LoadProgress[Len(LoadProgress)].current = Len(files)
       /\ LoadProgress[Len(LoadProgress)].total = Len(files)
  /\ (Stage(pc) \in {"Selecting", "Analyzing", "Reporting", "Done"}
        /\ AlignProgress # <<>>) =>
       /\ Len(AlignProgress) = Len(alignLog)
       /\ AlignProgress[Len(AlignProgress)].current = AlignProgress[Len(AlignProgress)].total

C16_Witness ==
  /\ variant = "hca_all_analysis"
  /\ pc = "select"
  /\ Len(AlignProgress) = 2
  /\ Len(LoadProgress) = 3

\* C17: a Hotspot Overlap job called with align=False is only ever called in
\* a run whose global alignment pass was executed beforehand, whatever the
\* configuration (ALIGN_STRUCTURES = False included).
C17_PreAlignedHO ==
  \A k \in 1..Len(calls) :
    (calls[k].function = "ho" /\ ~calls[k].align) => alignRan
====
